---- MODULE Spec2Model ----
\* Model of MeshEdgeBreakerTraversalValenceDecoder
\* (src/compression/mesh/mesh_edgebreaker_traversal_valence_decoder.h).
\*
\* Vectors (std::vector, IndexTypeVector) are functions over 0..n-1 so that the
\* model uses the same zero-based positions as the code.
EXTENDS Integers, Sequences, FiniteSets, TLC

\* ---------------------------------------------------------------- bounds
\* Largest vertex count passed to SetNumEncodedVertices.
MaxBaseVerts == 10
\* Largest split-symbol count carried by the stream.
MaxSplit == 3
\* Largest per-context symbol count carried by the stream.
MaxCount == 2
\* Number of traversal calls (DecodeSymbol, NewActiveCornerReached,
\* MergeVertices) the driver makes after Start.
MaxCalls == 5
\* Number of symbols of an encoded traversal (round trip).
MaxSymbols == 3

\* ------------------------------------------------------- program constants
\* last_symbol_(-1) and active_context_(-1) in the constructor.
NoSymbol == -1
NoContext == -1
\* min_valence_(2), max_valence_(7).
MinValence27 == 2
MaxValence27 == 7
\* Largest value of int (the type of a context cursor).
IntMax == 2147483647

\* Values of the shared edgebreaker header (mesh_edgebreaker_shared.h).
EDGEBREAKER_VALENCE_MODE_2_7 == 0
TOPOLOGY_C == 0
TOPOLOGY_S == 1
TOPOLOGY_L == 3
TOPOLOGY_R == 5
TOPOLOGY_E == 7
TOPOLOGY_INVALID == 9

TopologySymbols == {TOPOLOGY_C, TOPOLOGY_S, TOPOLOGY_L, TOPOLOGY_R, TOPOLOGY_E}

\* edge_breaker_symbol_to_topology_id[]: local symbol code -> topology id.
edge_breaker_symbol_to_topology_id ==
    [id \in 0..4 |-> CASE id = 0 -> TOPOLOGY_C
                       [] id = 1 -> TOPOLOGY_S
                       [] id = 2 -> TOPOLOGY_L
                       [] id = 3 -> TOPOLOGY_R
                       [] id = 4 -> TOPOLOGY_E]

SymbolCodes == DOMAIN edge_breaker_symbol_to_topology_id

\* ------------------------------------------------------------ vectors
EmptyVec == [i \in {} |-> 0]

Size(vec) == Cardinality(DOMAIN vec)

\* std::vector::resize(n, v): keeps the first n entries, pads with v.
Resize(vec, n, v) == [i \in 0..(n - 1) |-> IF i \in DOMAIN vec THEN vec[i] ELSE v]

\* Conversion of a uint32_t value to int (two's complement). The value is given
\* as its top bit and its low 31 bits (value = 2^31 * bit31 + low), so that
\* every uint32_t value can be written; with the top bit set the int is
\* low - 2^31.
ToInt32(bit31, low) == IF bit31 THEN (low - IntMax) - 1 ELSE low

\* -------------------------------------------------------- corner table
\* CornerTable::Next / Previous: the other two corners of the same face.
CornerNext(c) == IF (c + 1) % 3 = 0 THEN c - 2 ELSE c + 1
CornerPrevious(c) == IF c % 3 = 0 THEN c + 2 ELSE c - 1

\* corner_table_(nullptr)
NullTable == EmptyVec

\* The corner tables the driver hands over: one face whose three corners map
\* to one, two or three different vertices (corner -> vertex).
CornerTables ==
    { [c \in 0..2 |-> 0],
      [c \in 0..2 |-> IF c = 0 THEN 0 ELSE 1],
      [c \in 0..2 |-> c] }

TableVertices(table) == {table[c] : c \in DOMAIN table}

VARIABLES
    pc,                 \* driver position: constructed / started / failed / crashed
    corner_table_,
    num_vertices_,
    vertex_valences_,
    last_symbol_,
    active_context_,
    min_valence_,
    max_valence_,
    context_symbols_,
    context_counters_,
    call,               \* history: the last call, its arguments and its result
    served,             \* history: context-path DecodeSymbol calls per context
    nac_called,         \* history: NewActiveCornerReached has been called
    calls,              \* history: traversal calls made so far
    plan,               \* round trip: the traversal that was encoded
    decoded,            \* round trip: the symbols DecodeSymbol has returned
    rt_pc               \* round trip: the driver's position in the plan

decoder == <<corner_table_, num_vertices_, vertex_valences_, last_symbol_,
             active_context_, min_valence_, max_valence_, context_symbols_,
             context_counters_>>

roundtrip == <<plan, decoded, rt_pc>>

vars == <<pc, decoder, call, served, nac_called, calls, roundtrip>>

CallRecord(op, args, ok, sym, note) ==
    [op |-> op, args |-> args, ok |-> ok, sym |-> sym, note |-> note]

\* --------------------------------------------------------- construction
Constructed ==
    /\ pc = "constructed"
    /\ corner_table_ = NullTable
    /\ num_vertices_ = 0
    /\ vertex_valences_ = EmptyVec
    /\ last_symbol_ = NoSymbol
    /\ active_context_ = NoContext
    /\ min_valence_ = MinValence27
    /\ max_valence_ = MaxValence27
    /\ context_symbols_ = EmptyVec
    /\ context_counters_ = EmptyVec
    /\ call = CallRecord("new", <<>>, TRUE, NoSymbol, "")
    /\ served = [c \in 0..(MaxValence27 - MinValence27) |-> 0]
    /\ nac_called = FALSE
    /\ calls = 0

\* Init(decoder): corner_table_ = decoder->GetCornerTable().
InitDecoder(table) ==
    /\ pc = "constructed"
    /\ corner_table_ = NullTable
    /\ corner_table_' = table
    /\ call' = CallRecord("Init", <<>>, TRUE, NoSymbol, "")
    /\ UNCHANGED <<pc, num_vertices_, vertex_valences_, last_symbol_,
                   active_context_, min_valence_, max_valence_,
                   context_symbols_, context_counters_, served, nac_called, calls>>

\* SetNumEncodedVertices(num_vertices)
SetNumEncodedVertices(n) ==
    /\ pc = "constructed"
    /\ num_vertices_' = n
    /\ call' = CallRecord("SetNumEncodedVertices", <<n>>, TRUE, NoSymbol, "")
    /\ UNCHANGED <<pc, corner_table_, vertex_valences_, last_symbol_,
                   active_context_, min_valence_, max_valence_,
                   context_symbols_, context_counters_, served, nac_called, calls>>

\* ------------------------------------------------------------- Start
\* A fixed-width DecoderBuffer::Decode: fails on underflow, else yields a value.
ReadFail == [ok |-> FALSE, val |-> 0]
ReadOf(v) == [ok |-> TRUE, val |-> v]

\* The int32 split-symbol count and the int8 mode byte as read from the buffer.
SplitReads == {ReadFail} \cup {ReadOf(v) : v \in (-1)..MaxSplit}
ModeReads == {ReadFail} \cup {ReadOf(v) : v \in {EDGEBREAKER_VALENCE_MODE_2_7, 1}}

\* What the per-context part of the buffer yields: for context i the varint
\* num_symbols (count[i], plus 2^31 when i is in high) and the codes
\* DecodeSymbols writes (symbols[i]).
\* The codes of a stream follow a rotation of the alphabet so that neighbouring
\* positions and neighbouring contexts hold different codes.
StreamOf(k, staggered, seed) ==
    LET cnt == [i \in 0..(MaxValence27 - MinValence27) |->
                   IF staggered THEN (k + i) % (MaxCount + 1) ELSE k]
    IN [count |-> cnt,
        high |-> {},
        symbols |-> [i \in DOMAIN cnt |->
                        [pos \in 0..(cnt[i] - 1) |-> (seed + i + pos) % 5]]]

Streams ==
    {StreamOf(k, st, seed) : k \in 0..MaxCount, st \in BOOLEAN, seed \in SymbolCodes}

\* A per-context sub-step whose failure Start does not look at: the varint read
\* (its result is dropped, num_symbols is then whatever the stack held) or the
\* bulk symbol decode (its result is dropped, the queue is then whatever was
\* written). Either way the values used are the ones the stream input carries.
Faults == {"none", "varint", "symbols"}

\* Variant of ContextCounter: the cursor starts on the last position instead
\* of one past it.
ContextCounterOneShort(bit31, low) == ToInt32(bit31, low) - 1

\* context_counters_[i] = num_symbols  (uint32_t stored into an int)
ContextCounter(bit31, low) == ToInt32(bit31, low)

\* num_symbols > 0, for the uint32_t num_symbols of context i.
HasSymbols(stream, i) == i \in stream.high \/ stream.count[i] > 0

\* The queue and the cursor of context i after the loop body of Start. A queue
\* of 2^31 + k entries is kept as its first k entries; QueueHigh tells that
\* 2^31 more follow.
LoadedSymbols(stream, i) ==
    IF HasSymbols(stream, i) THEN stream.symbols[i] ELSE EmptyVec

QueueHigh(stream, i) == HasSymbols(stream, i) /\ i \in stream.high

LoadedCounter(stream, i) ==
    IF HasSymbols(stream, i)
    THEN ContextCounter(i \in stream.high, stream.count[i])
    ELSE 0

\* Variant of ModeSupported: larger mode values are let through.
ModeSupportedAny(mode) == mode >= EDGEBREAKER_VALENCE_MODE_2_7

\* The mode test of Start: only EDGEBREAKER_VALENCE_MODE_2_7 is supported.
ModeSupported(mode) == mode = EDGEBREAKER_VALENCE_MODE_2_7

\* Variant of TotalVertices: the split symbols are not added.
TotalVerticesNoSplit(num_vertices, num_split_symbols) == num_vertices

\* num_vertices_ += num_split_symbols
TotalVertices(num_vertices, num_split_symbols) == num_vertices + num_split_symbols

\* Variant of StartOutcome: the result of the split-symbol read is not tested.
StartOutcomeSplitUnchecked(base_ok, split, mode, stream, fault) ==
    LET before == [pc |-> "failed", ok |-> FALSE, note |-> "",
                   num_vertices |-> num_vertices_, valences |-> vertex_valences_,
                   min |-> min_valence_, max |-> max_valence_,
                   symbols |-> context_symbols_, counters |-> context_counters_]
        total == TotalVertices(num_vertices_, split.val)
        sized == [before EXCEPT !.num_vertices = total,
                                !.valences = Resize(vertex_valences_, total, 0)]
        num_unique_valences == MaxValence27 - MinValence27 + 1
    IN  IF ~base_ok THEN [before EXCEPT !.note = "base"]
        ELSE IF total < 0
             \* resize() with a negative int converted to size_t throws
             THEN [before EXCEPT !.pc = "crashed", !.note = "alloc",
                                 !.num_vertices = total]
        ELSE IF ~mode.ok THEN [sized EXCEPT !.note = "mode_read"]
        ELSE IF ~ModeSupported(mode.val) THEN [sized EXCEPT !.note = "mode"]
        ELSE IF fault = "alloc"
             \* context_symbols_[i].resize(num_symbols) throws
             THEN [sized EXCEPT !.pc = "crashed", !.note = "queue_alloc",
                                !.min = MinValence27, !.max = MaxValence27]
        ELSE [sized EXCEPT
                !.pc = "started", !.ok = TRUE, !.note = fault,
                !.min = MinValence27, !.max = MaxValence27,
                !.symbols = [i \in 0..(num_unique_valences - 1) |->
                                LoadedSymbols(stream, i)],
                !.counters = [i \in 0..(num_unique_valences - 1) |->
                                LoadedCounter(stream, i)]]

\* The outcome of Start as a record of the fields it leaves behind.
StartOutcome(base_ok, split, mode, stream, fault) ==
    LET before == [pc |-> "failed", ok |-> FALSE, note |-> "",
                   num_vertices |-> num_vertices_, valences |-> vertex_valences_,
                   min |-> min_valence_, max |-> max_valence_,
                   symbols |-> context_symbols_, counters |-> context_counters_]
        total == TotalVertices(num_vertices_, split.val)
        sized == [before EXCEPT !.num_vertices = total,
                                !.valences = Resize(vertex_valences_, total, 0)]
        num_unique_valences == MaxValence27 - MinValence27 + 1
    IN  IF ~base_ok THEN [before EXCEPT !.note = "base"]
        ELSE IF ~split.ok THEN [before EXCEPT !.note = "split"]
        ELSE IF total < 0
             \* resize() with a negative int converted to size_t throws
             THEN [before EXCEPT !.pc = "crashed", !.note = "alloc",
                                 !.num_vertices = total]
        ELSE IF ~mode.ok THEN [sized EXCEPT !.note = "mode_read"]
        ELSE IF ~ModeSupported(mode.val) THEN [sized EXCEPT !.note = "mode"]
        ELSE IF fault = "alloc"
             \* context_symbols_[i].resize(num_symbols) throws
             THEN [sized EXCEPT !.pc = "crashed", !.note = "queue_alloc",
                                !.min = MinValence27, !.max = MaxValence27]
        ELSE [sized EXCEPT
                !.pc = "started", !.ok = TRUE, !.note = fault,
                !.min = MinValence27, !.max = MaxValence27,
                !.symbols = [i \in 0..(num_unique_valences - 1) |->
                                LoadedSymbols(stream, i)],
                !.counters = [i \in 0..(num_unique_valences - 1) |->
                                LoadedCounter(stream, i)]]

Start(base_ok, split, mode, stream, fault) ==
    LET out == StartOutcome(base_ok, split, mode, stream, fault) IN
    /\ pc = "constructed"
    /\ fault \in {"symbols", "alloc"} =>
           \E i \in DOMAIN stream.count : HasSymbols(stream, i)
    /\ pc' = out.pc
    /\ num_vertices_' = out.num_vertices
    /\ vertex_valences_' = out.valences
    /\ min_valence_' = out.min
    /\ max_valence_' = out.max
    /\ context_symbols_' = out.symbols
    /\ context_counters_' = out.counters
    /\ call' = CallRecord("Start",
                          <<num_vertices_, split, mode, base_ok,
                            {i \in DOMAIN stream.count : QueueHigh(stream, i)}>>,
                          out.ok, NoSymbol, out.note)
    /\ UNCHANGED <<corner_table_, last_symbol_, active_context_, served,
                   nac_called, calls>>

\* ------------------------------------------------------- DecodeSymbol
\* The driver only traverses a mesh whose corner table it has handed over and
\* whose vertices are exactly the entries of the valence table.
Traversing ==
    /\ pc = "started"
    /\ corner_table_ # NullTable
    /\ TableVertices(corner_table_) = DOMAIN vertex_valences_

\* Variant of PopPosition: the position a postfix decrement would read.
PopPositionPostfix(counter) == counter

\* The position [--context_counters_[active_context_]] reads, for the cursor
\* value before the call.
PopPosition(counter) == counter - 1

\* Values an out-of-range read of the queue, mapped through the symbol table,
\* can leave in last_symbol_.
GarbageSymbols == TopologySymbols \cup {TOPOLOGY_INVALID}

\* Variant of PoppedCounter: the cursor is read but never moved.
PoppedCounterKept(counter) == counter

\* The value --context_counters_[active_context_] leaves in the cursor.
PoppedCounter(counter) == counter - 1

DecodeSymbol ==
    /\ Traversing
    /\ calls' = calls + 1
    /\ IF active_context_ # NoContext
       THEN LET c == active_context_
                pos == PopPosition(context_counters_[c])
            IN  /\ served' = [served EXCEPT ![c] = @ + 1]
                /\ context_counters_' = [context_counters_ EXCEPT ![c] = PoppedCounter(@)]
                /\ IF pos \in DOMAIN context_symbols_[c]
                   THEN LET symbol_id == context_symbols_[c][pos] IN
                        /\ last_symbol_' = edge_breaker_symbol_to_topology_id[symbol_id]
                        /\ pc' = pc
                        /\ call' = CallRecord("DecodeSymbol", <<c, pos>>, TRUE,
                                              last_symbol_', "context")
                   ELSE \* read outside the queue: undefined behaviour
                        \/ /\ last_symbol_' \in GarbageSymbols
                           /\ pc' = pc
                           /\ call' = CallRecord("DecodeSymbol", <<c, pos>>, TRUE,
                                                 last_symbol_', "out_of_range")
                        \/ /\ last_symbol_' = last_symbol_
                           /\ pc' = "crashed"
                           /\ call' = CallRecord("DecodeSymbol", <<c, pos>>, FALSE,
                                                 NoSymbol, "out_of_range")
       ELSE \* MeshEdgeBreakerTraversalDecoder::DecodeSymbol(): read from the buffer
            /\ last_symbol_' \in TopologySymbols
            /\ call' = CallRecord("DecodeSymbol", <<NoContext, 0>>, TRUE,
                                  last_symbol_', "base")
            /\ UNCHANGED <<pc, context_counters_, served>>
    /\ UNCHANGED <<corner_table_, num_vertices_, vertex_valences_, active_context_,
                   min_valence_, max_valence_, context_symbols_, nac_called>>

\* ------------------------------------------- NewActiveCornerReached
\* Variant of ValenceIncrements: the rows of R and L are exchanged.
ValenceIncrementsSwapped(symbol) ==
    CASE symbol \in {TOPOLOGY_C, TOPOLOGY_S} -> <<0, 1, 1>>
      [] symbol = TOPOLOGY_R -> <<1, 2, 1>>
      [] symbol = TOPOLOGY_L -> <<1, 1, 2>>
      [] symbol = TOPOLOGY_E -> <<2, 2, 2>>
      [] OTHER -> <<0, 0, 0>>

\* The switch on last_symbol_: increments of the valences of the vertices of
\* <<corner, next, prev>>.
ValenceIncrements(symbol) ==
    CASE symbol \in {TOPOLOGY_C, TOPOLOGY_S} -> <<0, 1, 1>>
      [] symbol = TOPOLOGY_R -> <<1, 1, 2>>
      [] symbol = TOPOLOGY_L -> <<1, 2, 1>>
      [] symbol = TOPOLOGY_E -> <<2, 2, 2>>
      [] OTHER -> <<0, 0, 0>>

\* vertex_valences_[v] += d
AddValence(valences, v, d) == [valences EXCEPT ![v] = @ + d]

\* Variant of UpdatedValences: a vertex that several corners of the face share
\* receives one increment only.
UpdatedValencesOncePerVertex(valences, symbol, vc, vn, vp) ==
    LET inc == ValenceIncrements(symbol) IN
    [v \in DOMAIN valences |->
        IF v = vp THEN valences[v] + inc[3]
        ELSE IF v = vn THEN valences[v] + inc[2]
        ELSE IF v = vc THEN valences[v] + inc[1]
        ELSE valences[v]]

\* The three += of a case of the switch, applied one after the other.
UpdatedValences(valences, symbol, vc, vn, vp) ==
    LET inc == ValenceIncrements(symbol) IN
    AddValence(AddValence(AddValence(valences, vc, inc[1]), vn, inc[2]), vp, inc[3])

\* Variant of ClampValence: the upper limit is not applied.
ClampValenceNoUpper(active_valence, lo, hi) ==
    IF active_valence < lo THEN lo ELSE active_valence

\* clamped_valence: active_valence limited to [min_valence_, max_valence_].
ClampValence(active_valence, lo, hi) ==
    IF active_valence < lo THEN lo
    ELSE IF active_valence > hi THEN hi
    ELSE active_valence

\* Variant of ContextOfValence: the context index is one too low.
ContextOfValenceOffByOne(active_valence, lo, hi) ==
    ClampValence(active_valence, lo, hi) - lo - 1

\* active_context_ = clamped_valence - min_valence_
ContextOfValence(active_valence, lo, hi) == ClampValence(active_valence, lo, hi) - lo

NewActiveCornerReached(corner) ==
    LET next == CornerNext(corner)
        prev == CornerPrevious(corner)
        updated == UpdatedValences(vertex_valences_, last_symbol_,
                                   corner_table_[corner], corner_table_[next],
                                   corner_table_[prev])
    IN  /\ Traversing
        /\ calls' = calls + 1
        /\ vertex_valences_' = updated
        /\ active_context_' = ContextOfValence(updated[corner_table_[next]],
                                               min_valence_, max_valence_)
        /\ nac_called' = TRUE
        /\ call' = CallRecord("NewActiveCornerReached", <<corner>>, TRUE,
                              NoSymbol, "")
        /\ UNCHANGED <<pc, corner_table_, num_vertices_, last_symbol_, min_valence_,
                       max_valence_, context_symbols_, context_counters_, served>>

\* ------------------------------------------------------ MergeVertices
MergedValenceDifference(dest_valence, source_valence) == dest_valence - source_valence

MergedValence(dest_valence, source_valence) == dest_valence + source_valence

\* Variant of MergeVertices: the merged-away vertex is also cleared.
MergeVerticesClearsSource(dest, source) ==
    /\ Traversing
    /\ calls' = calls + 1
    /\ vertex_valences_' =
           [vertex_valences_ EXCEPT
               ![dest] = MergedValence(vertex_valences_[dest], vertex_valences_[source]),
               ![source] = 0]
    /\ call' = CallRecord("MergeVertices", <<dest, source>>, TRUE, NoSymbol, "")
    /\ UNCHANGED <<pc, corner_table_, num_vertices_, last_symbol_, active_context_,
                   min_valence_, max_valence_, context_symbols_, context_counters_,
                   served, nac_called>>

MergeVertices(dest, source) ==
    /\ Traversing
    /\ calls' = calls + 1
    /\ vertex_valences_' =
           [vertex_valences_ EXCEPT
               ![dest] = MergedValence(vertex_valences_[dest], vertex_valences_[source])]
    /\ call' = CallRecord("MergeVertices", <<dest, source>>, TRUE, NoSymbol, "")
    /\ UNCHANGED <<pc, corner_table_, num_vertices_, last_symbol_, active_context_,
                   min_valence_, max_valence_, context_symbols_, context_counters_,
                   served, nac_called>>

\* ------------------------------------------------------ specification
\* Spec: the decoder under a driver that makes any calls in any order, on any
\* stream.
Init ==
    /\ Constructed
    /\ plan = [table |-> NullTable, symbols |-> <<>>, steps |-> <<>>]
    /\ decoded = <<>>
    /\ rt_pc = "off"

InitDecoderStep ==
    /\ pc = "constructed"
    /\ \E table \in CornerTables : InitDecoder(table)
    /\ UNCHANGED roundtrip

SetNumEncodedVerticesStep ==
    /\ pc = "constructed"
    /\ \E n \in 0..MaxBaseVerts : SetNumEncodedVertices(n)
    /\ UNCHANGED roundtrip

\* Start stops reading at its first failing step: the inputs behind that step
\* are never looked at, so one representative of them is enough.
ReadsInOrder(base_ok, split, mode, stream, fault) ==
    LET unread == StreamOf(0, FALSE, 0) IN
    /\ ~base_ok => split = ReadFail
    /\ (~split.ok \/ TotalVertices(num_vertices_, split.val) < 0) => mode = ReadFail
    /\ (~mode.ok \/ ~ModeSupported(mode.val)) => (stream = unread /\ fault = "none")

StartStep ==
    /\ pc = "constructed"
    /\ \E base_ok \in BOOLEAN, split \in SplitReads, mode \in ModeReads,
          stream \in Streams, fault \in Faults :
           /\ ReadsInOrder(base_ok, split, mode, stream, fault)
           /\ Start(base_ok, split, mode, stream, fault)
    /\ UNCHANGED roundtrip

DecodeSymbolStep ==
    /\ calls < MaxCalls
    /\ DecodeSymbol
    /\ UNCHANGED roundtrip

NewActiveCornerReachedStep ==
    /\ calls < MaxCalls
    /\ \E corner \in DOMAIN corner_table_ : NewActiveCornerReached(corner)
    /\ UNCHANGED roundtrip

MergeVerticesStep ==
    /\ calls < MaxCalls
    /\ \E dest \in DOMAIN vertex_valences_, source \in DOMAIN vertex_valences_ :
           MergeVertices(dest, source)
    /\ UNCHANGED roundtrip

Next ==
    \/ InitDecoderStep
    \/ SetNumEncodedVerticesStep
    \/ StartStep
    \/ DecodeSymbolStep
    \/ NewActiveCornerReachedStep
    \/ MergeVerticesStep

Spec == Init /\ [][Next]_vars

\* ------------------------------------------------- header, any count
\* SpecHeader: construction and Start alone, on streams whose varint counts
\* range over the top half of uint32_t as well. A queue that large may fail to
\* allocate ("alloc"): resize() then throws out of Start.
HighSets == {{}} \cup {{i} : i \in 0..(MaxValence27 - MinValence27)}
                \cup {0..(MaxValence27 - MinValence27)}

WideStreams ==
    {[StreamOf(k, st, 0) EXCEPT !.high = h] :
        k \in 0..MaxCount, st \in BOOLEAN, h \in HighSets}

HeaderFaults == Faults \cup {"alloc"}

HeaderStartStep ==
    /\ pc = "constructed"
    /\ \E base_ok \in BOOLEAN, split \in SplitReads, mode \in ModeReads,
          stream \in WideStreams, fault \in HeaderFaults :
           /\ ReadsInOrder(base_ok, split, mode, stream, fault)
           /\ fault = "alloc" => stream.high # {}
           /\ Start(base_ok, split, mode, stream, fault)
    /\ UNCHANGED roundtrip

HeaderNext ==
    \/ InitDecoderStep
    \/ SetNumEncodedVerticesStep
    \/ HeaderStartStep

SpecHeader == Init /\ [][HeaderNext]_vars

\* ---------------------------------------------------------- round trip
\* SpecRT: a traversal (corner table, visited corners, merges, symbols) is
\* encoded by the matching encoder and then decoded by the driver protocol
\* Init, SetNumEncodedVertices, Start, then per symbol DecodeSymbol,
\* NewActiveCornerReached and the step's MergeVertices.

\* The driver steps of a traversal: the corner visited and, possibly, the two
\* corners whose vertices are merged after it (destination, source).
DriverSteps ==
    { [corner |-> 0, merge |-> <<>>],
      [corner |-> 1, merge |-> <<>>],
      [corner |-> 2, merge |-> <<0, 1>>] }

SeqsOfLength(S, n) == [1..n -> S]

\* The encoder's valence bookkeeping: the increment table and the clamping rule.
EncIncrement(symbol) ==
    IF symbol = TOPOLOGY_C \/ symbol = TOPOLOGY_S THEN <<0, 1, 1>>
    ELSE IF symbol = TOPOLOGY_R THEN <<1, 1, 2>>
    ELSE IF symbol = TOPOLOGY_L THEN <<1, 2, 1>>
    ELSE IF symbol = TOPOLOGY_E THEN <<2, 2, 2>>
    ELSE <<0, 0, 0>>

EncContext(valence) == IF valence <= 2 THEN 0 ELSE IF valence >= 7 THEN 5 ELSE valence - 2

EncAdd(valences, v, d) == [valences EXCEPT ![v] = @ + d]

\* Valences after the corner of a step has been visited with the given symbol.
EncVisited(valences, symbol, table, step) ==
    LET inc == EncIncrement(symbol) IN
    EncAdd(EncAdd(EncAdd(valences, table[step.corner], inc[1]),
                  table[CornerNext(step.corner)], inc[2]),
           table[CornerPrevious(step.corner)], inc[3])

\* Valences after the merge of a step, if it has one.
EncMerged(valences, table, step) ==
    IF step.merge = <<>> THEN valences
    ELSE EncAdd(valences, table[step.merge[1]], valences[table[step.merge[2]]])

\* The local code of a topology symbol.
EncCode(symbol) ==
    CHOOSE id \in SymbolCodes : edge_breaker_symbol_to_topology_id[id] = symbol

\* The symbols of each context in traversal order: symbol i > 1 goes to the
\* context selected after step i - 1; the first symbol goes to the base stream.
RECURSIVE EncBuckets(_, _, _, _, _)
EncBuckets(p, i, valences, context, buckets) ==
    IF i > Len(p.symbols) THEN buckets
    ELSE LET visited == EncVisited(valences, p.symbols[i], p.table, p.steps[i])
             selected == EncContext(visited[p.table[CornerNext(p.steps[i].corner)]])
             filled == IF i = 1 THEN buckets
                       ELSE [buckets EXCEPT ![context] = Append(@, EncCode(p.symbols[i]))]
         IN  EncBuckets(p, i + 1, EncMerged(visited, p.table, p.steps[i]), selected,
                        filled)

\* The per-context part of the encoded stream: each bucket is stored so that
\* its first symbol in traversal order sits at the end of the queue.
EncodedStream(p) ==
    LET zero == [v \in TableVertices(p.table) |-> 0]
        buckets == EncBuckets(p, 1, zero, 0,
                              [c \in 0..(MaxValence27 - MinValence27) |-> <<>>])
    IN  [count |-> [c \in DOMAIN buckets |-> Len(buckets[c])],
         high |-> {},
         symbols |-> [c \in DOMAIN buckets |->
                         [pos \in 0..(Len(buckets[c]) - 1) |->
                             buckets[c][Len(buckets[c]) - pos]]]]

RTInit ==
    /\ Constructed
    /\ \E n \in 1..MaxSymbols :
           \E t \in CornerTables, syms \in SeqsOfLength(TopologySymbols, n),
              steps \in SeqsOfLength(DriverSteps, n) :
               plan = [table |-> t, symbols |-> syms, steps |-> steps]
    /\ decoded = <<>>
    /\ rt_pc = "init"

\* The driver's position after the step whose symbol was decoded last.
RTAfterStep == IF Len(decoded) = Len(plan.symbols) THEN "done" ELSE "decode"

RTInitDecoder ==
    /\ rt_pc = "init"
    /\ InitDecoder(plan.table)
    /\ rt_pc' = "setnum"
    /\ UNCHANGED <<plan, decoded>>

RTSetNumEncodedVertices ==
    /\ rt_pc = "setnum"
    /\ SetNumEncodedVertices(Cardinality(TableVertices(plan.table)))
    /\ rt_pc' = "start"
    /\ UNCHANGED <<plan, decoded>>

RTStart ==
    /\ rt_pc = "start"
    /\ Start(TRUE, ReadOf(0), ReadOf(EDGEBREAKER_VALENCE_MODE_2_7),
             EncodedStream(plan), "none")
    /\ rt_pc' = "decode"
    /\ UNCHANGED <<plan, decoded>>

RTDecodeSymbol ==
    /\ rt_pc = "decode"
    /\ DecodeSymbol
    \* the base stream of the encoder holds the first symbol
    /\ call'.note = "base" => last_symbol_' = plan.symbols[1]
    /\ decoded' = Append(decoded, call'.sym)
    /\ rt_pc' = "corner"
    /\ UNCHANGED plan

RTNewActiveCornerReached ==
    /\ rt_pc = "corner"
    /\ NewActiveCornerReached(plan.steps[Len(decoded)].corner)
    /\ rt_pc' = IF plan.steps[Len(decoded)].merge = <<>> THEN RTAfterStep ELSE "merge"
    /\ UNCHANGED <<plan, decoded>>

RTMergeVertices ==
    /\ rt_pc = "merge"
    /\ MergeVertices(plan.table[plan.steps[Len(decoded)].merge[1]],
                     plan.table[plan.steps[Len(decoded)].merge[2]])
    /\ rt_pc' = RTAfterStep
    /\ UNCHANGED <<plan, decoded>>

RTNext ==
    \/ RTInitDecoder
    \/ RTSetNumEncodedVertices
    \/ RTStart
    \/ RTDecodeSymbol
    \/ RTNewActiveCornerReached
    \/ RTMergeVertices

SpecRT == RTInit /\ [][RTNext]_vars

\* ============================================================ properties

\* ---- C1 ----
\* C1: a DecodeSymbol call made with an active context whose cursor is 0 fails
\* with an error: it reads no position outside the queue and returns no symbol.
C1_UnderflowIsReported ==
    (call.op = "DecodeSymbol" /\ call.args[1] # NoContext /\ call.args[2] < 0)
        => (call.note # "out_of_range" /\ ~call.ok /\ call.sym = NoSymbol)

\* ---- C2 ----
\* C2: after a successful Start every context's cursor stays between 0 and the
\* length of its queue.
C2_CursorInRange ==
    pc = "started" =>
        \A c \in DOMAIN context_counters_ :
            /\ 0 <= context_counters_[c]
            /\ context_counters_[c] <= Size(context_symbols_[c])

\* ---- C3 ----
\* C3: Start returns success only if every sub-step succeeded, the per-context
\* varint read and the per-context bulk symbol decode included.
C3_StartSucceedsOnlyIfAllSubstepsDo ==
    (call.op = "Start" /\ call.ok) => call.note = "none"

\* ---- C4 ----
\* C4: decoding the stream the matching encoder produced for a traversal
\* returns the traversal's symbols in traversal order.
C4_RoundTrip ==
    /\ Len(decoded) <= Len(plan.symbols)
    /\ \A i \in 1..Len(decoded) : decoded[i] = plan.symbols[i]
    /\ rt_pc = "done" => decoded = plan.symbols

\* C4 witness: a traversal of three symbols is done, two of them different
\* symbols served by the same context, with a merge on the way.
C4_TraversalDecoded ==
    /\ rt_pc = "done"
    /\ Len(decoded) = 3
    /\ decoded[2] # decoded[3]
    /\ \E c \in DOMAIN served : served[c] = 2
    /\ \E i \in 1..2 : plan.steps[i].merge # <<>>

\* ---- C5 ----
\* C5: the j-th DecodeSymbol served from a context holding n codes (j <= n)
\* lowers that context's cursor by one, returns the topology id mapped from the
\* code at position n - j, and records that id as last_symbol_.
C5_ReverseOrderConsumption ==
    [][ (/\ call'.op = "DecodeSymbol"
         /\ calls' = calls + 1
         /\ active_context_ # NoContext
         /\ served'[active_context_] <= Size(context_symbols_[active_context_]))
        => LET c == active_context_
               n == Size(context_symbols_[c])
               j == served'[c]
           IN  /\ context_counters_'[c] = context_counters_[c] - 1
               /\ context_counters_'[c] = n - j
               /\ call'.sym = edge_breaker_symbol_to_topology_id[context_symbols_[c][n - j]]
               /\ last_symbol_' = call'.sym ]_vars

\* C5 witness: the second symbol of a context has been served.
C5_SecondSymbolServed ==
    /\ call.op = "DecodeSymbol"
    /\ call.note = "context"
    /\ served[call.args[1]] = 2
    /\ call.args[2] = 0

\* ---- C6 ----
\* C6: NewActiveCornerReached(corner) adds to each vertex the sum of the
\* increments of the table below (keyed by last_symbol_) over those of
\* corner, next, prev that map to it, and changes no other entry.
C6_Increment(symbol) ==
    IF symbol = TOPOLOGY_C \/ symbol = TOPOLOGY_S THEN <<0, 1, 1>>
    ELSE IF symbol = TOPOLOGY_R THEN <<1, 1, 2>>
    ELSE IF symbol = TOPOLOGY_L THEN <<1, 2, 1>>
    ELSE IF symbol = TOPOLOGY_E THEN <<2, 2, 2>>
    ELSE <<0, 0, 0>>

C6_Share(v, at, amount) == IF v = at THEN amount ELSE 0

C6_ValenceUpdate ==
    [][ (call'.op = "NewActiveCornerReached" /\ calls' = calls + 1)
        => LET corner == call'.args[1]
               vc == corner_table_[corner]
               vn == corner_table_[CornerNext(corner)]
               vp == corner_table_[CornerPrevious(corner)]
               inc == C6_Increment(last_symbol_)
           IN  /\ DOMAIN vertex_valences_' = DOMAIN vertex_valences_
               /\ \A v \in DOMAIN vertex_valences_ :
                      vertex_valences_'[v] =
                          vertex_valences_[v] + C6_Share(v, vc, inc[1])
                              + C6_Share(v, vn, inc[2]) + C6_Share(v, vp, inc[3]) ]_vars

\* C6 witness: an R update on a face whose next and prev corners share a vertex.
C6_SharedVertexUpdated ==
    /\ call.op = "NewActiveCornerReached"
    /\ call.args[1] = 0
    /\ last_symbol_ = TOPOLOGY_R
    /\ corner_table_ # NullTable
    /\ corner_table_[1] = corner_table_[2]
    /\ corner_table_[0] # corner_table_[1]
    /\ vertex_valences_[corner_table_[1]] = 3
    /\ vertex_valences_[corner_table_[0]] = 1

\* ---- C7 ----
\* C7: after NewActiveCornerReached(corner) the active context is
\* clamp(v, 2, 7) - 2 for the updated valence v of next's vertex: 0 for v <= 2,
\* 5 for v >= 7, and always an index of the context store.
C7_Context(v) == IF v <= 2 THEN 0 ELSE IF v >= 7 THEN 5 ELSE v - 2

C7_ContextIsClampedValence ==
    call.op = "NewActiveCornerReached" =>
        /\ active_context_ =
               C7_Context(vertex_valences_[corner_table_[CornerNext(call.args[1])]])
        /\ active_context_ \in 0..5
        /\ active_context_ \in DOMAIN context_symbols_
        /\ active_context_ \in DOMAIN context_counters_

\* C7 witness: a valence above 7 has been clamped to context 5.
C7_ValenceAboveRange ==
    /\ call.op = "NewActiveCornerReached"
    /\ vertex_valences_[corner_table_[CornerNext(call.args[1])]] >= 8
    /\ active_context_ = 5

\* ---- C8 ----
\* C8: active_context_ is -1 exactly as long as NewActiveCornerReached has not
\* been called; Start, DecodeSymbol and MergeVertices leave it alone; and a
\* DecodeSymbol call takes the base path exactly when no
\* NewActiveCornerReached call came before it.
C8_NoContextOnlyBeforeFirstCorner ==
    /\ [](active_context_ = NoContext <=> ~nac_called)
    /\ [](call.op = "DecodeSymbol" => (call.note = "base" <=> ~nac_called))
    /\ [][call'.op \in {"Init", "SetNumEncodedVertices", "Start", "DecodeSymbol",
                        "MergeVertices"}
              => active_context_' = active_context_]_vars

\* C8 witness: a DecodeSymbol on the context path after a corner was reached.
C8_ContextPathTaken ==
    /\ nac_called
    /\ call.op = "DecodeSymbol"
    /\ call.note = "context"
    /\ active_context_ = 0

\* ---- C9 ----
\* C9: when the mode byte is read and is not the 2..7 mode, Start fails and no
\* context queue or cursor exists.
C9_UnsupportedModeFails ==
    (call.op = "Start" /\ call.args[3].ok /\ call.args[3].val # 0)
        => (~call.ok /\ context_symbols_ = EmptyVec /\ context_counters_ = EmptyVec)

\* C9 witness: Start has read mode byte 1 and rejected it.
C9_ModeOneRejected ==
    /\ call.op = "Start"
    /\ call.note = "mode"
    /\ call.args[3] = ReadOf(1)
    /\ pc = "failed"

\* ---- C10 ----
\* C10: a successful Start leaves the valence table with n + s zero entries, for
\* the vertex count n set before and the split-symbol count s read.
C10_ValenceTableSized ==
    (call.op = "Start" /\ call.ok) =>
        /\ DOMAIN vertex_valences_ = 0..(call.args[1] + call.args[2].val - 1)
        /\ \A v \in DOMAIN vertex_valences_ : vertex_valences_[v] = 0
        /\ Size(vertex_valences_) = call.args[1] + call.args[2].val

\* C10 witness: ten base vertices and three split symbols give 13 zero entries.
C10_TenPlusThree ==
    /\ call.op = "Start"
    /\ call.ok
    /\ call.args[1] = 10
    /\ call.args[2] = ReadOf(3)
    /\ vertex_valences_ = [v \in 0..12 |-> 0]

\* ---- C11 ----
\* C11: once Start has succeeded, every valence is non-negative, and no step of
\* DecodeSymbol, NewActiveCornerReached or MergeVertices lowers a valence or
\* resizes the table; this includes MergeVertices with dest = source.
C11_ValencesNeverDecrease ==
    /\ [](pc = "started" => \A v \in DOMAIN vertex_valences_ : vertex_valences_[v] >= 0)
    /\ [][(pc = "started" /\ calls' = calls + 1) =>
            /\ DOMAIN vertex_valences_' = DOMAIN vertex_valences_
            /\ \A v \in DOMAIN vertex_valences_ :
                   /\ vertex_valences_'[v] >= vertex_valences_[v]
                   /\ vertex_valences_'[v] >= 0]_vars

\* C11 witness: MergeVertices(v, v) has doubled a valence of 2 to 4.
C11_SelfMergeDoubled ==
    /\ call.op = "MergeVertices"
    /\ call.args[1] = call.args[2]
    /\ vertex_valences_[call.args[1]] = 4
    /\ \A v \in DOMAIN vertex_valences_ : v # call.args[1] => vertex_valences_[v] = 2

\* ---- C12 ----
\* C12: MergeVertices(dest, source) stores valence[dest] + valence[source] of
\* before the call at dest and changes nothing else: the source entry (when it
\* is another vertex) and every other entry keep their values, and the active
\* context, the last symbol, the queues and the cursors are unchanged.
C12_MergeFrame ==
    [][(call'.op = "MergeVertices" /\ calls' = calls + 1) =>
        LET dest == call'.args[1]
            source == call'.args[2]
        IN  /\ vertex_valences_'[dest] = vertex_valences_[dest] + vertex_valences_[source]
            /\ DOMAIN vertex_valences_' = DOMAIN vertex_valences_
            /\ \A v \in DOMAIN vertex_valences_ :
                   v # dest => vertex_valences_'[v] = vertex_valences_[v]
            /\ UNCHANGED <<active_context_, last_symbol_, context_symbols_,
                           context_counters_, num_vertices_, corner_table_,
                           min_valence_, max_valence_, pc>>]_vars

\* C12 witness: on the face (0, 1, 1), symbol R at corner 0 gave valences
\* (1, 3) and context 1 from vertex 1; MergeVertices(1, 0) then raised vertex 1
\* to 4 and the active context is still 1.
C12_MergeIntoContextVertex ==
    /\ corner_table_ = [c \in 0..2 |-> IF c = 0 THEN 0 ELSE 1]
    /\ calls = 3
    /\ call.op = "MergeVertices"
    /\ call.args = <<1, 0>>
    /\ last_symbol_ = TOPOLOGY_R
    /\ vertex_valences_ = [v \in 0..1 |-> IF v = 0 THEN 1 ELSE 4]
    /\ active_context_ = 1

\* ---- C13 ----
\* C13: a DecodeSymbol call changes at most the last symbol and, when an active
\* context is set, that context's cursor, which falls by exactly 1; the valence
\* table, the active context, the stored codes and every other cursor are
\* unchanged, and with no active context every cursor is unchanged.
C13_DecodeSymbolFrame ==
    [][(call'.op = "DecodeSymbol" /\ calls' = calls + 1) =>
        /\ UNCHANGED <<vertex_valences_, active_context_, context_symbols_,
                       num_vertices_, corner_table_, min_valence_, max_valence_>>
        /\ DOMAIN context_counters_' = DOMAIN context_counters_
        /\ \A i \in DOMAIN context_counters_ :
               context_counters_'[i] =
                   IF i = active_context_ THEN context_counters_[i] - 1
                   ELSE context_counters_[i]
        /\ active_context_ = NoContext => context_counters_' = context_counters_]_vars

\* C13 witness: a symbol was served from context 0, whose cursor fell from 2 to
\* 1, while context 1 still holds its 2 symbols.
C13_ServedWithOtherCursorKept ==
    /\ call.op = "DecodeSymbol"
    /\ call.note = "context"
    /\ call.args = <<0, 1>>
    /\ context_counters_[0] = 1
    /\ context_counters_[1] = 2
    /\ Size(context_symbols_[0]) = 2

\* ---- C14 ----
\* C14: on a stream written by the matching encoder, when the driver has made
\* all its DecodeSymbol, NewActiveCornerReached and MergeVertices calls, the
\* cursor of every context is exactly 0.
C14_AllQueuesDrained ==
    rt_pc = "done" =>
        /\ pc = "started"
        /\ \A i \in DOMAIN context_counters_ : context_counters_[i] = 0

\* C14 witness: a traversal of three symbols is complete and one context held
\* two of them.
C14_TwoSymbolContextDrained ==
    /\ rt_pc = "done"
    /\ Len(decoded) = 3
    /\ \E i \in DOMAIN context_symbols_ :
           /\ Size(context_symbols_[i]) = 2
           /\ served[i] = 2
           /\ context_counters_[i] = 0

\* ---- C15 ----
\* C15 as stated: on a stream written by the matching encoder, every
\* NewActiveCornerReached call, the one after the last decoded symbol included,
\* selects a context whose encoded count is above 0 and whose cursor is above 0.
C15_NeverSelectsDrainedContext ==
    call.op = "NewActiveCornerReached" =>
        /\ active_context_ \in DOMAIN context_counters_
        /\ Size(context_symbols_[active_context_]) > 0
        /\ context_counters_[active_context_] > 0

\* C15: on a stream written by the matching encoder, every
\* NewActiveCornerReached call that a further DecodeSymbol follows selects a
\* context whose encoded count is above 0 and whose cursor is above 0.
C15_SelectedContextHasSymbols ==
    (call.op = "NewActiveCornerReached" /\ Len(decoded) < Len(plan.symbols)) =>
        /\ active_context_ \in DOMAIN context_counters_
        /\ Size(context_symbols_[active_context_]) > 0
        /\ context_counters_[active_context_] > 0

\* C15 witness: after the second of three symbols the context that served it
\* is selected again, with one of its two symbols left.
C15_ContextSelectedAgain ==
    /\ call.op = "NewActiveCornerReached"
    /\ Len(decoded) = 2
    /\ Len(plan.symbols) = 3
    /\ Size(context_symbols_[active_context_]) = 2
    /\ served[active_context_] = 1
    /\ context_counters_[active_context_] = 1

\* ---- C16 ----
\* C16: decoding is deterministic: in every state of a traversal a call has one
\* outcome, so two decoders given the same input and the same calls stay equal.
\* NewActiveCornerReached and MergeVertices compute their result from the last
\* symbol, the valences and the corner table alone; a DecodeSymbol call on the
\* context path must likewise leave a single possible last symbol.
C16_OneOutcomePerCall ==
    (Traversing /\ active_context_ # NoContext /\ calls < MaxCalls) =>
        Cardinality({ o \in {"started", "crashed"} \X (GarbageSymbols \cup {NoSymbol}) :
                        ENABLED (DecodeSymbol /\ pc' = o[1] /\ last_symbol_' = o[2]) }) <= 1

\* ---- C17 ----
\* C17: after a successful Start there are exactly 6 contexts, context i holds
\* the i-th count of the stream, and for every context the cursor equals the
\* encoded count, which equals the length of the queue, for every count a
\* uint32_t can carry. A count with the top bit set is 2^31 + count[i]; an int
\* cursor equals it only if it is above IntMax.
C17_CursorEqualsCount ==
    (call.op = "Start" /\ call.ok) =>
        /\ DOMAIN context_symbols_ = 0..5
        /\ DOMAIN context_counters_ = 0..5
        /\ \A i \in DOMAIN context_counters_ :
               IF i \in call.args[5]
               THEN /\ context_counters_[i] > IntMax
                    /\ (context_counters_[i] - IntMax) - 1 = Size(context_symbols_[i])
               ELSE context_counters_[i] = Size(context_symbols_[i])

\* ---- C18 ----
\* C18: Start fails whenever the base header does not parse, the read of the
\* split-symbol count underflows or the read of the mode byte underflows; after
\* a failure of the first two kinds the vertex count is the one set before the
\* call and the valence table is still empty.
C18_ReadFailureFailsStart ==
    call.op = "Start" =>
        LET n == call.args[1]
            split == call.args[2]
            mode == call.args[3]
            base_ok == call.args[4]
        IN  /\ (~base_ok \/ ~split.ok) =>
                   /\ ~call.ok
                   /\ pc = "failed"
                   /\ num_vertices_ = n
                   /\ vertex_valences_ = EmptyVec
            /\ (base_ok /\ split.ok /\ TotalVertices(n, split.val) >= 0 /\ ~mode.ok) =>
                   /\ ~call.ok
                   /\ pc = "failed"

\* C18 witness: with 10 vertices set, the base header parsed and the read of
\* the split-symbol count underflowed; Start failed and the count is still 10.
C18_SplitReadUnderflow ==
    /\ call.op = "Start"
    /\ call.args[4]
    /\ call.args[2] = ReadFail
    /\ ~call.ok
    /\ num_vertices_ = 10
    /\ vertex_valences_ = EmptyVec

\* ---- C19 ----
\* The sum of the entries of a valence table.
RECURSIVE C19_SumOver(_, _)
C19_SumOver(valences, vertices) ==
    IF vertices = {} THEN 0
    ELSE LET v == CHOOSE x \in vertices : TRUE
         IN  valences[v] + C19_SumOver(valences, vertices \ {v})

C19_Sum(valences) == C19_SumOver(valences, DOMAIN valences)

\* The growth of the sum the claim gives for each last symbol.
C19_Growth(symbol) ==
    IF symbol \in {TOPOLOGY_C, TOPOLOGY_S} THEN 2
    ELSE IF symbol \in {TOPOLOGY_R, TOPOLOGY_L} THEN 4
    ELSE IF symbol = TOPOLOGY_E THEN 6
    ELSE 0

\* C19: each NewActiveCornerReached call raises the sum of all valences by
\* exactly 2 after C or S, 4 after R or L, 6 after E and 0 otherwise, whether
\* or not corners of the face share a vertex; each MergeVertices(dest, source)
\* call raises it by exactly the valence source had before the call.
C19_SumGrowth ==
    [][/\ (call'.op = "NewActiveCornerReached" /\ calls' = calls + 1) =>
            C19_Sum(vertex_valences_') =
                C19_Sum(vertex_valences_) + C19_Growth(last_symbol_)
       /\ (call'.op = "MergeVertices" /\ calls' = calls + 1) =>
            C19_Sum(vertex_valences_') =
                C19_Sum(vertex_valences_) + vertex_valences_[call'.args[2]]]_vars

\* C19 witness: on a face whose three corners are one vertex, the call after
\* symbol E raised that vertex, and the sum, from 0 to 6.
C19_SixOnOneVertex ==
    /\ call.op = "NewActiveCornerReached"
    /\ calls = 2
    /\ last_symbol_ = TOPOLOGY_E
    /\ TableVertices(corner_table_) = {0}
    /\ vertex_valences_ = [v \in {0} |-> 6]

====
